---- MODULE Spec2Model ----
(***************************************************************************)
(* Model of package iovec (Builder.Add, Builder.addByAppend,               *)
(* Builder.Build): a bounded table of syscall.Iovec descriptors over       *)
(* caller-owned byte slices, with an overflow buffer once the table holds  *)
(* MaxIovs entries.                                                        *)
(*                                                                         *)
(* Memory is modelled explicitly.  Region 0 is the caller's backing array; *)
(* region k >= 1 is the k-th array allocated by append on behalf of the    *)
(* builder.  A Go slice is a record [reg, off, len, cap]; a *byte is a     *)
(* record [reg, off]; region -1 is the nil pointer.                        *)
(***************************************************************************)
EXTENDS Integers, Sequences, FiniteSets, TLC

\* Largest value of MaxIovs explored (the host value is linux.UIO_MAXIOV).
MaxIovsHi == 2

\* Number of bytes in the caller's backing array.
CallerMemSize == 3

\* Largest number of non-empty buffers passed to Add in one behaviour.
MaxAdds == 3

\* Largest number of consecutive Build calls explored.
MaxBuilds == 2

\* storage [8]syscall.Iovec
StorageLen == 8

VARIABLES
    MaxIovs,     \* var MaxIovs
    iovec,       \* w.iovec: the elements of the slice
    iovecCap,    \* cap(w.iovec); 0 while w.iovec is nil
    overflow,    \* w.overflow: slice header
    callerArr,   \* bytes of the caller's backing array (region 0)
    heap,        \* heap[k]: bytes of the k-th array allocated by append
    fault,       \* "none", or the run-time panic that ended the last call
    op,          \* the last call: "New", "Add", "Build", "Write"
    arg,         \* the buffer passed to Add, when the last call is an Add
    ret,         \* the table returned, when the last call is a Build
    written,     \* addresses stored to by the last call
    added,       \* history: the non-empty buffers passed to Add
    nbuild,      \* consecutive Build calls since the last other call
    built        \* history, recorded under SpecBuilt: "no", "built" once
                 \* Build was called, "added" once a non-empty buffer was
                 \* added after that

vars == <<MaxIovs, iovec, iovecCap, overflow, callerArr, heap, fault, op, arg,
          ret, written, added, nbuild, built>>

----------------------------------------------------------------------------
\* Slices and memory

NilSlice == [reg |-> -1, off |-> 0, len |-> 0, cap |-> 0]

NilAddr == [reg |-> -1, off |-> 0]

ZeroIovec == [Base |-> NilAddr, Len |-> 0]

\* The slices the caller can form over its array: a[off : off+len : off+cap].
CallerSlices ==
    { [reg |-> 0, off |-> o, len |-> l, cap |-> c] :
        o \in 0..CallerMemSize, l \in 0..CallerMemSize, c \in 0..CallerMemSize }

\* The buffers passed to Add: nil, the empty slice a[0:0], and every
\* non-empty slice a[i:j] of the array, whose capacity reaches the end of
\* the array.
CallerBufs ==
    { s \in CallerSlices : /\ s.off + s.cap = CallerMemSize
                           /\ s.len <= s.cap
                           /\ (s.len = 0 => s.off = 0) }
    \cup {NilSlice}

RegionArr(car, hp, r) ==
    IF r = 0 THEN car
    ELSE IF r \in 1..Len(hp) THEN hp[r]
    ELSE <<>>

\* The byte at offset off of region r; -1 outside the region.
ReadByte(car, hp, r, off) ==
    LET a == RegionArr(car, hp, r)
    IN  IF off + 1 \in 1..Len(a) THEN a[off + 1] ELSE -1

SliceBytes(car, hp, s) ==
    [i \in 1..s.len |-> ReadByte(car, hp, s.reg, s.off + i - 1)]

\* &s[0]
AddrOfFirst(s) == [reg |-> s.reg, off |-> s.off]

\* The bytes an Iovec references.
IovecBytes(car, hp, d) ==
    [i \in 1..d.Len |-> ReadByte(car, hp, d.Base.reg, d.Base.off + i - 1)]

RECURSIVE TableBytes(_, _, _)
TableBytes(car, hp, tbl) ==
    IF tbl = <<>> THEN <<>>
    ELSE IovecBytes(car, hp, Head(tbl)) \o TableBytes(car, hp, Tail(tbl))

\* The concatenation of a sequence of byte sequences.
RECURSIVE Concat(_)
Concat(ss) == IF ss = <<>> THEN <<>> ELSE Head(ss) \o Concat(Tail(ss))

----------------------------------------------------------------------------
\* The builtin append(s, data...) on []byte

\* roundupsize of the gc runtime for a size of at most 256 bytes: the
\* smallest of the size classes 8, 16, 32, 48, 64, ..., 256 that holds n.
RoundUpSize(n) ==
    IF n <= 8 THEN 8
    ELSE IF n <= 16 THEN 16
    ELSE ((n + 15) \div 16) * 16

\* growslice, a long slice: newcap += newcap / 4 until it holds need.
RECURSIVE GrowQuarter(_, _)
GrowQuarter(newcap, need) ==
    IF 0 < newcap /\ newcap < need
    THEN GrowQuarter(newcap + newcap \div 4, need)
    ELSE newcap

\* growslice: the capacity asked of the allocator for a slice of length
\* oldlen and capacity oldcap that must hold need elements.
GrowCap(oldlen, oldcap, need) ==
    IF need > 2 * oldcap THEN need
    ELSE IF oldlen < 1024 THEN 2 * oldcap
    ELSE LET c == GrowQuarter(oldcap, need) IN IF c <= 0 THEN need ELSE c

\* The capacity append gives its result, as a set: the old one when the
\* data fits, otherwise that of the array growslice allocates for a []byte.
AppendCaps(s, n) ==
    IF s.len + n <= s.cap THEN {s.cap}
    ELSE {RoundUpSize(GrowCap(s.len, s.cap, s.len + n))}

\* arr with data stored at offsets off .. off+Len(data)-1.
Store(arr, off, data) ==
    [i \in 1..Len(arr) |->
        IF i - off \in 1..Len(data) THEN data[i - off] ELSE arr[i]]

\* The result of append(s, data...) when the result has capacity newcap:
\* the new slice header, both memories, and the addresses stored to.
GoAppend(car, hp, s, data, newcap) ==
    LET n == Len(data)
        need == s.len + n
    IN  IF need <= s.cap
        THEN [slice   |-> [s EXCEPT !.len = need],
              car     |-> IF s.reg = 0 THEN Store(car, s.off + s.len, data)
                          ELSE car,
              hp      |-> IF s.reg \in 1..Len(hp)
                          THEN [hp EXCEPT ![s.reg] =
                                    Store(hp[s.reg], s.off + s.len, data)]
                          ELSE hp,
              written |-> { [reg |-> s.reg, off |-> s.off + s.len + k] :
                              k \in 0..(n - 1) }]
        ELSE LET old == SliceBytes(car, hp, s)
                 r == Len(hp) + 1
                 fresh == [i \in 1..newcap |->
                             IF i <= s.len THEN old[i]
                             ELSE IF i <= need THEN data[i - s.len]
                             ELSE 0]
             IN  [slice   |-> [reg |-> r, off |-> 0, len |-> need,
                               cap |-> newcap],
                  car     |-> car,
                  hp      |-> Append(hp, fresh),
                  written |-> { [reg |-> r, off |-> k] :
                                  k \in 0..(need - 1) }]

\* cap(append(tbl, e)) for the table: it only grows when the element does
\* not fit, then at least doubles.
TableCap(oldcap, newlen) ==
    IF newlen <= oldcap THEN oldcap
    ELSE IF newlen > 2 * oldcap THEN newlen
    ELSE 2 * oldcap

----------------------------------------------------------------------------
\* Builder

\* Mutant of IsEmptyBuf: only a nil buffer is skipped.
IsNilBuf(buf) == buf.reg = -1

\* if len(buf) == 0
IsEmptyBuf(buf) == buf.len = 0

\* Mutant of AtMax: the comparison is off by one.
AtMaxOffByOne(iov, max) == Len(iov) > max

\* if len(w.iovec) >= MaxIovs
AtMax(iov, max) == Len(iov) >= max

\* Mutant of NewIovec: the capacity is taken for the length.
NewIovecCap(buf) == [Base |-> AddrOfFirst(buf), Len |-> buf.cap]

\* Mutant of NewIovec: the length is left out, syscall.Iovec{Base: &buf[0]}.
NewIovecNoLen(buf) == [Base |-> AddrOfFirst(buf), Len |-> 0]

\* syscall.Iovec{Base: &buf[0], Len: uint64(len(buf))}
NewIovec(buf) == [Base |-> AddrOfFirst(buf), Len |-> buf.len]

\* Mutant of SeedOverflow: the last buffer is not kept.
SeedOverflowNil(buf) == NilSlice

\* Mutant of SeedOverflow: the capacity is not cut, w.overflow = buf.
SeedOverflowNoCap(buf) == buf

\* n := len(buf); w.overflow = buf[:n:n]
SeedOverflow(buf) == [buf EXCEPT !.cap = buf.len]

\* Mutant of RebuildLast: the last entry is not rewritten.
RebuildLastSkip(iov, ov) == iov

\* Mutant of RebuildLast: only the length is rewritten, the base is kept.
RebuildLastLenOnly(iov, ov) == [iov EXCEPT ![Len(iov)].Len = ov.len]

\* Mutant of RebuildLast: the capacity is taken for the length.
RebuildLastCap(iov, ov) ==
    [iov EXCEPT ![Len(iov)] = [Base |-> AddrOfFirst(ov), Len |-> ov.cap]]

\* Mutant of RebuildLast: the first entry is rewritten, w.iovec[0] = ...
RebuildFirst(iov, ov) ==
    [iov EXCEPT ![1] = [Base |-> AddrOfFirst(ov), Len |-> ov.len]]

\* w.iovec[len(w.iovec)-1] = syscall.Iovec{Base: &w.overflow[0], Len: ...}
RebuildLast(iov, ov) ==
    [iov EXCEPT ![Len(iov)] = [Base |-> AddrOfFirst(ov), Len |-> ov.len]]

\* Mutant of BuildResult: the backing array is returned for a nil table.
BuildResultStorage(iov) ==
    IF iov = <<>> THEN [i \in 1..StorageLen |-> ZeroIovec] ELSE iov

\* return w.iovec
BuildResult(iov) == iov

\* What the history records of a non-empty buffer at the time of its Add.
Record(car, hp, buf) ==
    [Base |-> AddrOfFirst(buf), Len |-> buf.len,
     bytes |-> SliceBytes(car, hp, buf)]

ArgOf(buf) == [isNil |-> buf.reg = -1, len |-> buf.len]

Init ==
    /\ MaxIovs \in 1..MaxIovsHi
    /\ iovec = <<>>
    /\ iovecCap = 0
    /\ overflow = NilSlice
    /\ callerArr = [i \in 1..CallerMemSize |-> i]
    /\ heap = <<>>
    /\ op = "New"
    /\ arg = ArgOf(NilSlice)
    /\ ret = <<>>
    /\ written = {}
    /\ added = <<>>
    /\ nbuild = 0
    /\ built = "no"
    /\ fault = "none"

\* func (w *Builder) addByAppend(buf []byte), on builder w and memory
\* car, hp, append giving its result the capacity newcap: the builder, the
\* memory and the stores after the call.  Indexing an empty w.iovec or an
\* empty w.overflow panics, after w.overflow was assigned.
addByAppend(w, car, hp, buf, newcap) ==
    LET r == GoAppend(car, hp, w.overflow, SliceBytes(car, hp, buf), newcap)
        ok == Len(w.iovec) >= 1 /\ r.slice.len >= 1
    IN  [iovec    |-> IF ok THEN RebuildLast(w.iovec, r.slice) ELSE w.iovec,
         iovecCap |-> w.iovecCap,
         overflow |-> r.slice,
         car      |-> r.car,
         hp       |-> r.hp,
         written  |-> r.written,
         fault    |-> IF ok THEN "none" ELSE "index out of range"]

\* The body of func (w *Builder) Add(buf []byte), on builder w and memory
\* car, hp, with MaxIovs = max.  &buf[0] panics on a zero-length buf, after
\* a nil w.iovec was set to w.storage[:0].
AddResult(w, max, car, hp, buf, newcap) ==
    LET same == [iovec |-> w.iovec, iovecCap |-> w.iovecCap,
                 overflow |-> w.overflow, car |-> car, hp |-> hp,
                 written |-> {}, fault |-> "none"]
        cap0 == IF w.iovecCap = 0 THEN StorageLen ELSE w.iovecCap
        w0 == [w EXCEPT !.iovecCap = cap0]
    IN  IF IsEmptyBuf(buf) THEN same
        ELSE IF AtMax(w.iovec, max) THEN addByAppend(w0, car, hp, buf, newcap)
        ELSE IF buf.len = 0
        THEN [same EXCEPT !.iovecCap = cap0, !.fault = "index out of range"]
        ELSE [same EXCEPT
                !.iovec = Append(w.iovec, NewIovec(buf)),
                !.iovecCap = TableCap(cap0, Len(w.iovec) + 1),
                !.overflow = IF Len(w.iovec) + 1 = max
                             THEN SeedOverflow(buf)
                             ELSE w.overflow]

\* The capacities append may choose in Add(buf): it is only called in
\* addByAppend.
AddCaps(w, max, buf) ==
    IF ~IsEmptyBuf(buf) /\ AtMax(w.iovec, max)
    THEN AppendCaps(w.overflow, buf.len)
    ELSE {0}

\* The builder as a record.
Builder == [iovec |-> iovec, iovecCap |-> iovecCap, overflow |-> overflow]

\* func (w *Builder) Add(buf []byte)
Add(buf) ==
    /\ fault = "none"
    /\ IsEmptyBuf(buf) \/ Len(added) < MaxAdds
    /\ \E newcap \in AddCaps(Builder, MaxIovs, buf) :
          LET r == AddResult(Builder, MaxIovs, callerArr, heap, buf, newcap)
          IN  /\ iovec' = r.iovec
              /\ iovecCap' = r.iovecCap
              /\ overflow' = r.overflow
              /\ callerArr' = r.car
              /\ heap' = r.hp
              /\ written' = r.written
              /\ fault' = r.fault
    /\ added' = IF IsEmptyBuf(buf) THEN added
                ELSE Append(added, Record(callerArr, heap, buf))
    /\ op' = "Add"
    /\ arg' = ArgOf(buf)
    /\ nbuild' = 0
    /\ ret' = <<>>
    /\ built' = IF built = "built" /\ ~IsEmptyBuf(buf) THEN "added" ELSE built
    /\ UNCHANGED MaxIovs

\* Mutant of BuildCall: the builder is reset once its table is returned.
BuildCallReset ==
    /\ fault = "none"
    /\ nbuild < MaxBuilds
    /\ ret' = BuildResult(iovec)
    /\ iovec' = <<>>
    /\ overflow' = NilSlice
    /\ op' = "Build"
    /\ nbuild' = nbuild + 1
    /\ arg' = ArgOf(NilSlice)
    /\ written' = {}
    /\ UNCHANGED <<MaxIovs, iovecCap, callerArr, heap, fault, added>>

\* The body of func (w *Builder) Build() []syscall.Iovec
BuildCall ==
    /\ fault = "none"
    /\ nbuild < MaxBuilds
    /\ ret' = BuildResult(iovec)
    /\ op' = "Build"
    /\ nbuild' = nbuild + 1
    /\ arg' = ArgOf(NilSlice)
    /\ written' = {}
    /\ UNCHANGED <<MaxIovs, iovec, iovecCap, overflow, callerArr, heap, fault,
                   added>>

\* Mutant of Build: the builder is reset once its table is returned.
BuildReset == BuildCallReset /\ UNCHANGED built

\* func (w *Builder) Build() []syscall.Iovec
Build == BuildCall /\ UNCHANGED built

\* Build, the history recording that it was called.
BuildNoted == BuildCall /\ built' = IF built = "no" THEN "built" ELSE built

\* Between two calls, once a buffer was added to a full table, the caller
\* reuses its array: it overwrites every byte of it, and so every buffer it
\* has passed to Add.
CallerWrite ==
    /\ fault = "none"
    /\ Len(added) > MaxIovs
    /\ callerArr' = [i \in 1..CallerMemSize |-> 0]
    /\ op' = "Write"
    /\ nbuild' = 0
    /\ arg' = ArgOf(NilSlice)
    /\ ret' = <<>>
    /\ written' = { [reg |-> 0, off |-> k] : k \in 0..(CallerMemSize - 1) }
    /\ UNCHANGED <<MaxIovs, iovec, iovecCap, overflow, heap, fault, added,
                   built>>

\* Between two calls the caller reuses the buffer it passed to the k-th
\* non-empty Add, one made when the table was full: it overwrites its bytes.
CallerReuse(k) ==
    /\ fault = "none"
    /\ k \in (MaxIovs + 1)..Len(added)
    /\ LET cells == { added[k].Base.off + j : j \in 0..(added[k].Len - 1) }
       IN  /\ callerArr' = [i \in 1..CallerMemSize |->
                               IF i - 1 \in cells THEN 0 ELSE callerArr[i]]
           /\ written' = { [reg |-> 0, off |-> c] : c \in cells }
    /\ op' = "Write"
    /\ nbuild' = 0
    /\ arg' = ArgOf(NilSlice)
    /\ ret' = <<>>
    /\ UNCHANGED <<MaxIovs, iovec, iovecCap, overflow, heap, fault, added,
                   built>>

AddCall == \E buf \in CallerBufs : Add(buf)

ReuseCall == \E k \in 1..MaxAdds : CallerReuse(k)

Next == AddCall \/ Build

Spec == Init /\ [][Next]_vars

NextCaller == AddCall \/ Build \/ CallerWrite

SpecCaller == Init /\ [][NextCaller]_vars

NextReuse == AddCall \/ Build \/ ReuseCall

SpecReuse == Init /\ [][NextReuse]_vars

NextBuilt == AddCall \/ BuildNoted

SpecBuilt == Init /\ [][NextBuilt]_vars

----------------------------------------------------------------------------
\* Properties

\* The bytes of the non-empty buffers i..j passed to Add, as they were when
\* each was passed, in call order.
AddedBytes(i, j) == Concat([k \in 1..(j - i + 1) |-> added[i + k - 1].bytes])

RECURSIVE AddedLen(_, _)
AddedLen(i, j) == IF i > j THEN 0 ELSE added[i].Len + AddedLen(i + 1, j)

InitialArr == [i \in 1..CallerMemSize |-> i]

\* Entry i of table tbl is the address and the length of the i-th non-empty
\* buffer passed to Add.
Borrowed(tbl, i) ==
    /\ tbl[i].Base = added[i].Base
    /\ tbl[i].Len = added[i].Len

\* C1: the bytes referenced by the table, read in table order, are the
\* bytes of all non-empty buffers passed to Add, in call order; so are the
\* bytes referenced by the table Build returns.
C1_Transparency ==
    /\ TableBytes(callerArr, heap, iovec) = AddedBytes(1, Len(added))
    /\ op = "Build" =>
           TableBytes(callerArr, heap, ret) = AddedBytes(1, Len(added))

\* Build after more buffers than MaxIovs, the table being merged twice.
C1_Witness ==
    /\ op = "Build"
    /\ Len(added) = MaxIovs + 2
    /\ Len(ret) = MaxIovs
    /\ Len(TableBytes(callerArr, heap, ret)) > MaxIovs + 2

\* C2: every address an Add stores to lies in an array append allocated for
\* the builder, and the caller's array holds what the caller put there.
C2_NoStoreToCaller ==
    /\ \A a \in written : a.reg \in 1..Len(heap)
    /\ callerArr = InitialArr

\* The Add after saturation, where the buffer that saturated the table is
\* followed by more bytes of the caller's array.
C2_Witness ==
    /\ op = "Add"
    /\ Len(added) = MaxIovs + 1
    /\ written # {}
    /\ added[MaxIovs].Base.off + added[MaxIovs].Len < CallerMemSize

\* C3: the table, and the table Build returns, never hold more than
\* MaxIovs entries.
C3_TableBounded ==
    /\ Len(iovec) \in 0..MaxIovs
    /\ Len(ret) \in 0..MaxIovs

\* Build returns a full table after more than MaxIovs buffers.
C3_Witness ==
    /\ op = "Build"
    /\ Len(ret) = MaxIovs
    /\ Len(added) > MaxIovs

\* C4: an Add of a zero-length buffer leaves the table, the overflow buffer
\* and all memory as they were.
C4_EmptyAddNoOp ==
    [][(op' = "Add" /\ arg'.len = 0) =>
          UNCHANGED <<iovec, iovecCap, overflow, callerArr, heap, fault>>]_vars

\* An empty, non-nil buffer was added in merge mode.
C4_Witness ==
    /\ op = "Add"
    /\ arg.len = 0
    /\ ~arg.isNil
    /\ Len(added) > MaxIovs

\* C5: while no more than MaxIovs non-empty buffers were added, the table
\* has one entry per buffer, in call order, with the buffer's address and
\* length.
C5_DirectEntries ==
    Len(added) <= MaxIovs =>
        /\ Len(iovec) = Len(added)
        /\ \A i \in 1..Len(added) : Borrowed(iovec, i)
        /\ op = "Build" =>
               /\ Len(ret) = Len(added)
               /\ \A i \in 1..Len(added) : Borrowed(ret, i)

\* Build after exactly MaxIovs = 2 buffers at different addresses.
C5_Witness ==
    /\ op = "Build"
    /\ MaxIovs = 2
    /\ Len(added) = 2
    /\ added[1].Base.off > added[2].Base.off
    /\ ret[1].Base.off > ret[2].Base.off

\* Table tbl after n > MaxIovs buffers: MaxIovs entries, the first
\* MaxIovs-1 borrowed, the last one referencing the bytes of buffers
\* MaxIovs..n.
Merged(tbl) ==
    /\ Len(tbl) = MaxIovs
    /\ \A i \in 1..(MaxIovs - 1) : Borrowed(tbl, i)
    /\ tbl[MaxIovs].Len = AddedLen(MaxIovs, Len(added))
    /\ IovecBytes(callerArr, heap, tbl[MaxIovs])
           = AddedBytes(MaxIovs, Len(added))

\* C6: once more than MaxIovs non-empty buffers were added, the table has
\* MaxIovs entries: the first MaxIovs-1 are the first MaxIovs-1 buffers, the
\* last one references the concatenation of all later buffers.
C6_MergedEntries ==
    Len(added) > MaxIovs =>
        /\ Merged(iovec)
        /\ op = "Build" => Merged(ret)

\* Build with MaxIovs = 2 after three buffers.
C6_Witness ==
    /\ op = "Build"
    /\ MaxIovs = 2
    /\ Len(added) = 3
    /\ ret[2].Len = added[2].Len + added[3].Len

LastBytes(car, hp, tbl) == IovecBytes(car, hp, tbl[Len(tbl)])

IsPrefix(s, t) == Len(s) <= Len(t) /\ SubSeq(t, 1, Len(s)) = s

\* C7: once a buffer was added after saturation, the last entry points into
\* an array of the builder, and no later step, the caller overwriting its
\* buffers included, changes the bytes it referenced: later Adds extend them.
C7_OverflowOwned ==
    [][Len(added') > MaxIovs' =>
          /\ iovec'[Len(iovec')].Base.reg \in 1..Len(heap')
          /\ Len(added) > MaxIovs =>
                 IsPrefix(LastBytes(callerArr, heap, iovec),
                          LastBytes(callerArr', heap', iovec'))]_vars

\* The caller overwrote its array after the merge, and Build still returns
\* the bytes the caller had passed.
C7_Witness ==
    /\ op = "Build"
    /\ Len(added) > MaxIovs
    /\ callerArr # InitialArr
    /\ \A i \in 1..Len(added) : added[i].bytes[1] # 0
    /\ LastBytes(callerArr, heap, ret) = AddedBytes(MaxIovs, Len(added))

\* C8: in a full table the last entry has the base and the length of the
\* overflow buffer as it is now.
C8_LastIsOverflow ==
    /\ Len(iovec) = MaxIovs =>
           /\ iovec[MaxIovs].Base = AddrOfFirst(overflow)
           /\ iovec[MaxIovs].Len = overflow.len
    /\ (op = "Build" /\ Len(ret) = MaxIovs) =>
           /\ ret[MaxIovs].Base = AddrOfFirst(overflow)
           /\ ret[MaxIovs].Len = overflow.len

\* Build after the overflow buffer has moved twice.
C8_Witness ==
    /\ op = "Build"
    /\ Len(heap) >= 2
    /\ overflow.reg = Len(heap)
    /\ Len(ret) = MaxIovs

\* C9: Build changes nothing of the builder nor of memory, returns the
\* table, and returns what the Build just before it returned.
C9_BuildPure ==
    [][op' = "Build" =>
          /\ UNCHANGED <<MaxIovs, iovec, iovecCap, overflow, callerArr, heap>>
          /\ ret' = iovec
          /\ op = "Build" => ret' = ret]_vars

\* Two Builds in a row in merge mode.
C9_Witness ==
    /\ op = "Build"
    /\ nbuild = 2
    /\ Len(added) > MaxIovs
    /\ ret = iovec

\* C10: Build as the first call on a new builder returns a table of
\* length 0.
C10_FreshBuildEmpty ==
    [][(op = "New" /\ op' = "Build") => Len(ret') = 0]_vars

\* Build was called on a builder whose table is still nil.
C10_Witness ==
    /\ op = "Build"
    /\ iovecCap = 0
    /\ added = <<>>
    /\ Len(ret) = 0

\* C11: no call ends in a run-time panic: no index is out of range in Add,
\* addByAppend or Build, whatever buffers are passed and however many.
C11_NoFault == fault = "none"

\* A nil buffer was added after two merges.
C11_Witness ==
    /\ op = "Add"
    /\ arg.isNil
    /\ Len(added) = MaxIovs + 2
    /\ Len(iovec) = MaxIovs
    /\ fault = "none"

\* C12: while exactly MaxIovs buffers were added, the overflow buffer is the
\* last buffer with its capacity cut to its length, and the last entry is
\* that buffer's address and length; the next non-empty Add moves the
\* overflow buffer to the first array append allocates.
C12_SeedCutToLength ==
    /\ Len(added) = MaxIovs =>
           /\ overflow = [reg |-> 0, off |-> added[MaxIovs].Base.off,
                          len |-> added[MaxIovs].Len,
                          cap |-> added[MaxIovs].Len]
           /\ Len(iovec) = MaxIovs
           /\ Borrowed(iovec, MaxIovs)
           /\ heap = <<>>
    /\ Len(added) = MaxIovs + 1 =>
           /\ Len(heap) = 1
           /\ overflow.reg = 1
           /\ overflow.off = 0
           /\ overflow.len = added[MaxIovs].Len + added[MaxIovs + 1].Len

\* The Add that saturated the table passed a buffer that is followed by
\* more bytes of the caller's array.
C12_Witness ==
    /\ op = "Add"
    /\ arg.len > 0
    /\ Len(added) = MaxIovs
    /\ overflow.off + overflow.len < CallerMemSize
    /\ overflow.cap = overflow.len

\* C13: the overflow buffer is nil while the table has fewer than MaxIovs
\* entries and holds at least one byte when it has MaxIovs.
C13_OverflowIffSaturated ==
    /\ Len(iovec) < MaxIovs => overflow = NilSlice
    /\ Len(iovec) = MaxIovs => overflow.len >= 1
    /\ Len(iovec) <= MaxIovs

\* A table with an entry and room for another has no overflow buffer.
C13_Witness ==
    /\ Len(iovec) = 1
    /\ MaxIovs = 2
    /\ overflow = NilSlice
    /\ op = "Build"

\* C14: every entry of the table, and of the table Build returns, has a
\* length of at least 1.
C14_NoEmptyEntry ==
    /\ \A i \in 1..Len(iovec) : iovec[i].Len >= 1
    /\ \A i \in 1..Len(ret) : ret[i].Len >= 1

\* An empty, non-nil buffer was added to a table that had just saturated.
C14_Witness ==
    /\ op = "Add"
    /\ arg.len = 0
    /\ ~arg.isNil
    /\ Len(added) = MaxIovs
    /\ Len(iovec) = MaxIovs

\* C15: no step shortens the table, no step adds more than one entry, and
\* a table of MaxIovs entries keeps MaxIovs entries.
C15_SaturationAbsorbing ==
    [][/\ Len(iovec') >= Len(iovec)
       /\ Len(iovec') <= Len(iovec) + 1
       /\ Len(iovec) = MaxIovs => Len(iovec') = MaxIovs]_vars

\* A second buffer was merged into a table that stayed at MaxIovs.
C15_Witness ==
    /\ op = "Add"
    /\ arg.len > 0
    /\ Len(added) = MaxIovs + 2
    /\ Len(iovec) = MaxIovs

\* C16: an Add of a non-empty buffer to a full table keeps the length of
\* the table and its entries before the last, and stores nothing into the
\* caller's array.
C16_MergeFrame ==
    [][(op' = "Add" /\ arg'.len > 0 /\ Len(iovec) = MaxIovs) =>
          /\ Len(iovec') = Len(iovec)
          /\ \A i \in 1..(MaxIovs - 1) : iovec'[i] = iovec[i]
          /\ iovecCap' = iovecCap
          /\ callerArr' = callerArr]_vars

\* A buffer was merged into a table of two entries, the first one still
\* the first buffer.
C16_Witness ==
    /\ op = "Add"
    /\ arg.len > 0
    /\ MaxIovs = 2
    /\ Len(added) = 3
    /\ iovec[1].Base = added[1].Base
    /\ iovec[2].Base.reg = 1

\* Address a lies in the memory of the buffer recorded as h.
Inside(a, h) ==
    /\ a.reg = h.Base.reg
    /\ a.off \in h.Base.off..(h.Base.off + h.Len - 1)

\* The buffers added when the table was already full.
MergedAdds(hist, max) == (max + 1)..Len(hist)

\* Entry i of the table references other bytes after the step than before.
EntryChanged(i) ==
    IovecBytes(callerArr', heap', iovec'[i]) # IovecBytes(callerArr, heap, iovec[i])

\* C17 as stated: no entry of the table has its base inside a buffer that
\* was added in merge mode, and the caller overwriting such a buffer changes
\* the bytes referenced by no entry.
C17_Original ==
    [][/\ \A k \in MergedAdds(added', MaxIovs') : \A i \in 1..Len(iovec') :
              ~Inside(iovec'[i].Base, added'[k])
       /\ op' = "Write" => \A i \in 1..Len(iovec) : ~EntryChanged(i)]_vars

\* C17, amended: the last entry never has its base inside a buffer that was
\* added in merge mode and does not change when the caller overwrites such a
\* buffer; an entry that has its base inside it, or that changes, is the
\* borrowed entry of one of the first MaxIovs-1 buffers, whose memory the
\* caller passed again.
C17_MergedCopied ==
    [][/\ \A k \in MergedAdds(added', MaxIovs') : \A i \in 1..Len(iovec') :
              Inside(iovec'[i].Base, added'[k]) =>
                  /\ i < MaxIovs'
                  /\ Borrowed(iovec', i)
                  /\ Inside(added'[i].Base, added'[k])
       /\ op' = "Write" => \A i \in 1..Len(iovec) :
              EntryChanged(i) =>
                  /\ i < MaxIovs
                  /\ Borrowed(iovec, i)
                  /\ \E a \in written' :
                         a.off \in iovec[i].Base.off..
                                     (iovec[i].Base.off + iovec[i].Len - 1)]_vars

\* The caller overwrote a merged buffer that overlaps no borrowed buffer:
\* its array changed and the table still references the bytes that were
\* passed to Add.
C17_Witness ==
    /\ op = "Write"
    /\ MaxIovs = 2
    /\ Len(added) = 3
    /\ callerArr # InitialArr
    /\ TableBytes(callerArr, heap, iovec) = AddedBytes(1, 3)

\* The buffer the history recorded as h, as the slice buf[:n:n].
BufOf(h) ==
    [reg |-> h.Base.reg, off |-> h.Base.off, len |-> h.Len, cap |-> h.Len]

\* The builder and the memory after Add was called with the buffers of
\* hist, in order, and nothing else was called.
RECURSIVE Replay(_, _, _, _, _)
Replay(w, car, hp, hist, max) ==
    IF hist = <<>> THEN [w |-> w, car |-> car, hp |-> hp]
    ELSE LET buf == BufOf(Head(hist))
             caps == AddCaps(w, max, buf)
             newcap == CHOOSE c \in caps : \A d \in caps : c <= d
             r == AddResult(w, max, car, hp, buf, newcap)
         IN  Replay([iovec |-> r.iovec, iovecCap |-> r.iovecCap,
                     overflow |-> r.overflow],
                    r.car, r.hp, Tail(hist), max)

NewBuilder == [iovec |-> <<>>, iovecCap |-> 0, overflow |-> NilSlice]

\* What a reader of table tbl sees: per entry, the bytes it references.
View(car, hp, tbl) == [i \in 1..Len(tbl) |-> IovecBytes(car, hp, tbl[i])]

\* C18: the table Build returns, whatever Builds came before it, has the
\* entries (number, lengths, bytes) of the table built by the same non-empty
\* Adds alone.
C18_BuildsTransparent ==
    op = "Build" =>
        LET r == Replay(NewBuilder, InitialArr, <<>>, added, MaxIovs)
        IN  View(callerArr, heap, ret) = View(r.car, r.hp, r.w.iovec)

\* Build, after a Build that was followed by the Add of a buffer merged
\* into the full table.
C18_Witness ==
    /\ op = "Build"
    /\ built = "added"
    /\ Len(added) > MaxIovs
    /\ Len(ret) = MaxIovs
    /\ Len(heap) >= 1

====
